---- MODULE Spec2Model ----
(***************************************************************************)
(* Model of src/ai/converter.py: the model-to-GGML conversion pipeline.    *)
(*                                                                         *)
(* A path is a sequence of one-character strings.  A file is a record      *)
(* [kind, body]; the file system maps the input and the output path to a   *)
(* file.  One behaviour is one invocation, either of main() or of          *)
(* convert_model() directly.                                               *)
(***************************************************************************)
EXTENDS Integers, Sequences, FiniteSets, TLC

VARIABLES
    entry,        \* "main" | "convert_model": the function the caller invoked
    input_path,   \* args.input / convert_model's input_path
    output_path,  \* args.output / convert_model's output_path
    overwrite,    \* args.overwrite (only main has it)
    converters,   \* GGMLConverterRegistry.converters
    fs,           \* the files at input_path and output_path
    fs0,          \* fs when the invocation started
    pc,           \* position in the code
    trace,        \* pipeline stages entered so far
    converter,    \* class of the converter get_converter returned
    model,        \* self.model
    ggml_model,   \* the dict convert_to_ggml returned
    raised,       \* the exception a stage raised
    outcome,      \* what the caller of the entry point observes
    opened        \* open(self.output_path, "wb") has been executed

vars == <<entry, input_path, output_path, overwrite, converters, fs, fs0, pc,
          trace, converter, model, ggml_model, raised, outcome, opened>>

----------------------------------------------------------------------------
\* Bounds of the model.

\* longest extension (after the dot) of the generated input paths
MaxExtLen == 3
\* most entries of a .pth parameter mapping
MaxEntries == 2
\* most layers of a layered model
MaxLayers == 2
\* most weights of one layer
MaxWeights == 2

----------------------------------------------------------------------------
\* Strings.

UpperCase ==
    <<"A", "B", "C", "D", "E", "F", "G", "H", "I", "J", "K", "L", "M",
      "N", "O", "P", "Q", "R", "S", "T", "U", "V", "W", "X", "Y", "Z">>
LowerCase ==
    <<"a", "b", "c", "d", "e", "f", "g", "h", "i", "j", "k", "l", "m",
      "n", "o", "p", "q", "r", "s", "t", "u", "v", "w", "x", "y", "z">>

\* str.lower() on one character: a letter A-Z becomes a-z, every other
\* character of the paths modelled (digits, ".", "/", a-z) stays
LowerChar(c) ==
    IF \E i \in 1..Len(UpperCase) : UpperCase[i] = c
    THEN LowerCase[CHOOSE i \in 1..Len(UpperCase) : UpperCase[i] = c]
    ELSE c

\* str.lower()
Lower(s) == [i \in 1..Len(s) |-> LowerChar(s[i])]

\* str.rfind(c), 1-based; 0 when c does not occur
RFind(s, c) ==
    LET hits == {i \in 1..Len(s) : s[i] = c}
    IN  IF hits = {} THEN 0 ELSE CHOOSE i \in hits : \A j \in hits : j <= i

\* str.endswith(suffix)
EndsWith(s, suffix) ==
    /\ Len(suffix) <= Len(s)
    /\ SubSeq(s, Len(s) - Len(suffix) + 1, Len(s)) = suffix

\* os.path.splitext(p): <<root, ext>>.  The extension starts at the last dot
\* of the last path component, unless that component has only leading dots.
splitext(p) ==
    LET sepIndex == RFind(p, "/")
        dotIndex == RFind(p, ".")
    IN  IF /\ dotIndex > sepIndex
           /\ \E i \in (sepIndex + 1)..(dotIndex - 1) : p[i] # "."
        THEN <<SubSeq(p, 1, dotIndex - 1), SubSeq(p, dotIndex, Len(p))>>
        ELSE <<p, <<>>>>

PTH == <<".", "p", "t", "h">>
PT  == <<".", "p", "t">>
H5  == <<".", "h", "5">>
PB  == <<".", "p", "b">>

----------------------------------------------------------------------------
\* Files.

NoFile == [kind |-> "none", body |-> <<>>]
\* a torch checkpoint that unpickles to an object that is no dict
Pickled == [kind |-> "object", body |-> <<>>]
\* bytes that are no model of any framework (also: an earlier output file)
Junk == [kind |-> "junk", body |-> <<>>]
\* a TensorFlow SavedModel
SavedModel == [kind |-> "savedmodel", body |-> <<>>]

Exists(files, p) == files[p].kind # "none"

SameFile(a, b) == a.kind = b.kind /\ a.body = b.body

WeightNames == {"w", "b", "s"}

\* the sequences over S of length at most n
SeqUpTo(S, n) == UNION {[1..k -> S] : k \in 0..n}

\* the values of a checkpoint dict: a tensor, a tensor whose .cpu().numpy()
\* raises (it requires grad), and a value that is no torch.Tensor
Values == {"Tensor", "Tensor(requires_grad)", "int"}

\* a torch checkpoint holding a flat dict: entry i has name names[i] and
\* value values[i], and carries its own data.  tensor: the value is a
\* torch.Tensor; numpy: param.cpu().numpy() returns
Mapping(names, values) ==
    [kind |-> "mapping",
     body |-> [i \in 1..Len(names) |->
                 [name |-> names[i], tensor |-> values[i] # "int",
                  numpy |-> values[i] = "Tensor", data |-> i]]]

\* a Keras model: layer l holds the weights named layers[l], each with its
\* own data
Layered(layers) ==
    [kind |-> "layered",
     body |-> [l \in 1..Len(layers) |->
                 [weights |-> [w \in 1..Len(layers[l]) |->
                                 [name |-> layers[l][w], data |-> 10 * l + w]]]]]

\* a dict has each key once
Mappings ==
    {Mapping(ns, ts) :
        <<ns, ts>> \in
          {nt \in SeqUpTo(WeightNames, MaxEntries) \X SeqUpTo(Values, MaxEntries) :
              /\ Len(nt[1]) = Len(nt[2])
              /\ \A i, j \in 1..Len(nt[1]) : nt[1][i] = nt[1][j] => i = j}}

LayeredModels ==
    {Layered(ls) : ls \in SeqUpTo(SeqUpTo(WeightNames, MaxWeights), MaxLayers)}

----------------------------------------------------------------------------
\* GGMLConverterRegistry.

\* the class attribute GGMLConverterRegistry.converters
Registry ==
    (PTH :> "PyTorchConverter") @@ (PT :> "PyTorchConverter") @@
    (H5 :> "KerasConverter") @@ (PB :> "TensorFlowConverter")

\* dict.get(key): "None" when the key is absent
DictGet(d, key) == IF key \in DOMAIN d THEN d[key] ELSE "None"

\* Ext without the call of lower()
Ext_CaseSensitive(p) == splitext(p)[2]

\* ext = os.path.splitext(input_path)[1].lower()
Ext(p) == Lower(splitext(p)[2])

----------------------------------------------------------------------------
\* load_model of each converter class: [ok, model, err].

Loaded(m) == [ok |-> TRUE, model |-> m, err |-> "none"]
LoadFails(e) == [ok |-> FALSE, model |-> NoFile, err |-> e]

\* An exception is named "<the call that raised it>:<its class>"; the
\* handlers of lines 74-76, 113-115 and 150-152 raise it again unchanged.

\* torch.load(path): a checkpoint unpickles to the object saved, anything
\* else raises
TorchLoad(file) ==
    IF file.kind \in {"mapping", "object"} THEN Loaded(file)
    ELSE LoadFails("torch.load:Exception")

\* tensorflow.keras.models.load_model(path)
KerasLoad(file) ==
    IF file.kind = "layered" THEN Loaded(file)
    ELSE LoadFails("load_model:Exception")

\* tf.saved_model.load(path): the object it returns is no tf.keras.Model;
\* for a missing path and for a file that is no SavedModel it raises the
\* same error (no saved_model.pb under the path)
SavedModelLoad(file) ==
    IF file.kind = "savedmodel" THEN Loaded(file)
    ELSE LoadFails("tf.saved_model.load:OSError")

\* TensorFlowConverter.load_model with a handler that logs the exception and
\* does not raise it again
TensorFlowLoad_Swallowed(path, file) ==
    LET r == IF EndsWith(path, H5) THEN KerasLoad(file)
             ELSE IF EndsWith(path, PB) THEN SavedModelLoad(file)
             ELSE LoadFails("load_model:ValueError")
    IN  IF r.ok THEN r ELSE Loaded(Junk)

\* TensorFlowConverter.load_model: the branches test self.input_path as given
TensorFlowLoad(path, file) ==
    IF EndsWith(path, H5) THEN KerasLoad(file)
    ELSE IF EndsWith(path, PB) THEN SavedModelLoad(file)
    ELSE LoadFails("load_model:ValueError")

LoadModel(cls, path, file) ==
    CASE cls = "PyTorchConverter" -> TorchLoad(file)
      [] cls = "KerasConverter" -> KerasLoad(file)
      [] cls = "TensorFlowConverter" -> TensorFlowLoad(path, file)

----------------------------------------------------------------------------
\* convert_to_ggml of each converter class: [ok, dict, err].  A dict is the
\* sequence of its items [name, data] in insertion order.

Converted(d) == [ok |-> TRUE, dict |-> d, err |-> "none"]
ConvertFails(e) == [ok |-> FALSE, dict |-> <<>>, err |-> e]

\* d[name] = data: a new key is appended, a present key keeps its position
\* and takes the new value
DictSet(d, name, data) ==
    IF \E i \in 1..Len(d) : d[i].name = name
    THEN [i \in 1..Len(d) |->
            IF d[i].name = name THEN [name |-> name, data |-> data] ELSE d[i]]
    ELSE Append(d, [name |-> name, data |-> data])

\* for name, param in self.model.items(): if isinstance(param, torch.Tensor):
\* ggml_model[name] = param.cpu().numpy(); the first numpy() that raises ends
\* the loop
RECURSIVE PyTorchItems(_, _)
PyTorchItems(items, d) ==
    IF items = <<>> THEN Converted(d)
    ELSE LET e == Head(items)
         IN  IF e.tensor /\ ~e.numpy
             THEN ConvertFails("numpy:RuntimeError")
             ELSE PyTorchItems(Tail(items),
                               IF e.tensor THEN DictSet(d, e.name, e.data)
                               ELSE d)

\* for weight in layer.weights
RECURSIVE LayerWeights(_, _)
LayerWeights(weights, d) ==
    IF weights = <<>> THEN d
    ELSE LayerWeights(Tail(weights),
                      DictSet(d, Head(weights).name, Head(weights).data))

\* for layer in self.model.layers
RECURSIVE ModelLayers(_, _)
ModelLayers(layers, d) ==
    IF layers = <<>> THEN d
    ELSE ModelLayers(Tail(layers), LayerWeights(Head(layers).weights, d))

ConvertToGGML(cls, m) ==
    CASE cls = "PyTorchConverter" ->
            \* self.model.items() exists only on a dict
            IF m.kind = "mapping" THEN PyTorchItems(m.body, <<>>)
            ELSE ConvertFails("items:AttributeError")
      [] cls = "KerasConverter" -> Converted(ModelLayers(m.body, <<>>))
      [] cls = "TensorFlowConverter" ->
            \* isinstance(self.model, tf.keras.Model), else a warning only
            Converted(IF m.kind = "layered" THEN ModelLayers(m.body, <<>>)
                      ELSE <<>>)

\* the file torch.save(ggml_model, f) leaves when it returns
Container(d) == [kind |-> "container", body |-> d]
\* the file left when the write stops after the first k items
Partial(d, k) == [kind |-> "partial", body |-> SubSeq(d, 1, k)]

----------------------------------------------------------------------------
\* Inputs of one invocation.

Entries == {"main", "convert_model"}

OutPath == <<"o", ".", "g">>

\* a few concrete inputs: every supported suffix, one in upper case, one
\* that is not supported
PipelinePaths ==
    {<<"m">> \o PTH, <<"m">> \o PT, <<"m">> \o H5, <<"m">> \o PB,
     <<"m", ".", "P", "B">>, <<"m", ".", "x">>}

\* the checkpoint {"layer1.weight": tensor, "optimizer_step": int}, one
\* with a tensor that requires grad, one that is no dict, a model of two
\* layers with one weight each, the same with both weights named alike, a
\* SavedModel, bytes of no known format, and no file at all
PipelineFiles ==
    {Mapping(<<"w", "b">>, <<"Tensor", "int">>),
     Mapping(<<"w">>, <<"Tensor(requires_grad)">>), Pickled,
     Layered(<<<<"w">>, <<"b">>>>), Layered(<<<<"w">>, <<"w">>>>),
     SavedModel, Junk, NoFile}

\* paths around the suffix: a plain name, a directory, a dot in a directory
\* name, a name that is only the suffix, and a second suffix
Stems ==
    {<<"m">>, <<"d", "/", "m">>, <<"d", ".", "p", "t", "/", "m">>, <<>>,
     <<"m", ".", "p", "t">>}

ExtChars == {"p", "t", "h", "b", "5", "P", "T", "H", "B"}

Exts == {<<>>} \cup {<<".">> \o e : e \in SeqUpTo(ExtChars, MaxExtLen)}

RegistryPaths == {stem \o e : stem \in Stems, e \in Exts}

ExtractPaths == {<<"m">> \o PTH, <<"m">> \o H5, <<"m">> \o PB}

\* the state when the entry point is called
Start(e, inp, out, ow, infile, outfile) ==
    /\ entry = e
    /\ input_path = inp
    /\ output_path = out
    /\ overwrite = ow
    /\ converters = Registry
    /\ fs0 = (inp :> infile) @@ (out :> outfile)
    /\ fs = fs0
    /\ pc = e
    /\ trace = <<"Idle">>
    /\ converter = "None"
    /\ model = NoFile
    /\ ggml_model = <<>>
    /\ raised = "none"
    /\ outcome = "none"
    /\ opened = FALSE

\* the invocations that differ in entry point, paths, flag and files present
InitPipeline ==
    \E e \in Entries, inp \in PipelinePaths, same \in BOOLEAN, ow \in BOOLEAN,
       infile \in PipelineFiles, outfile \in {NoFile, Junk} :
        Start(e, inp, IF same THEN inp ELSE OutPath, ow, infile, outfile)

\* the invocations that differ in the input path
InitRegistry ==
    \E inp \in RegistryPaths :
        Start("convert_model", inp, OutPath, TRUE,
              Mapping(<<"w", "b">>, <<"Tensor", "int">>), NoFile)

\* the invocations that differ in the model the input file holds
InitExtract ==
    \/ \E inp \in ExtractPaths, infile \in Mappings :
          Start("convert_model", inp, OutPath, TRUE, infile, NoFile)
    \/ \E infile \in LayeredModels :
          Start("convert_model", <<"m">> \o H5, OutPath, TRUE, infile, NoFile)

Init == InitPipeline \/ InitRegistry \/ InitExtract

----------------------------------------------------------------------------
\* Steps.

Stage == trace[Len(trace)]

\* sys.exit(1) in main, before the pipeline is called
sys_exit ==
    /\ pc' = "exit"
    /\ outcome' = "SystemExit(1)"
    /\ trace' = Append(trace, "Failed")

\* a handler that calls the pipeline again instead of exiting
except_Exception_Retry(exc, stages) ==
    /\ raised' = exc
    /\ pc' = "convert_model"
    /\ outcome' = outcome
    /\ trace' = trace \o stages \o <<"Failed">>

\* convert_model's handler: an exception raised on entering the stages
\* `stages` (none, when the stage was entered before) is logged and the
\* process exits with status 1
except_Exception(exc, stages) ==
    /\ raised' = exc
    /\ pc' = "exit"
    /\ outcome' = "SystemExit(1)"
    /\ trace' = trace \o stages \o <<"Failed">>

\* main, up to its call of convert_model
main ==
    /\ pc = "main"
    /\ IF ~Exists(fs, input_path)
       THEN sys_exit
       ELSE IF Exists(fs, output_path) /\ ~overwrite
       THEN sys_exit
       ELSE /\ pc' = "convert_model"
            /\ UNCHANGED <<outcome, trace>>
    /\ UNCHANGED <<entry, input_path, output_path, overwrite, converters, fs,
                   fs0, converter, model, ggml_model, raised, opened>>

\* convert_model: GGMLConverterRegistry.get_converter(input_path, output_path)
get_converter ==
    /\ pc = "convert_model"
    /\ LET converter_class == DictGet(converters, Ext(input_path))
       IN  IF converter_class = "None"
           THEN /\ except_Exception("get_converter:ValueError", <<"Resolving">>)
                /\ UNCHANGED converter
           ELSE /\ converter' = converter_class
                /\ pc' = "load_model"
                /\ trace' = Append(trace, "Resolving")
                /\ UNCHANGED <<raised, outcome>>
    /\ UNCHANGED <<entry, input_path, output_path, overwrite, converters, fs,
                   fs0, model, ggml_model, opened>>

\* convert: self.load_model()
load_model ==
    /\ pc = "load_model"
    /\ LET r == LoadModel(converter, input_path, fs[input_path])
       IN  IF r.ok
           THEN /\ model' = r.model
                /\ pc' = "convert_to_ggml"
                /\ trace' = Append(trace, "Extracting")
                /\ UNCHANGED <<raised, outcome>>
           ELSE /\ except_Exception(r.err, <<"Extracting">>)
                /\ UNCHANGED model
    /\ UNCHANGED <<entry, input_path, output_path, overwrite, converters, fs,
                   fs0, converter, ggml_model, opened>>

\* convert: ggml_model = self.convert_to_ggml()
convert_to_ggml ==
    /\ pc = "convert_to_ggml"
    /\ LET r == ConvertToGGML(converter, model)
       IN  IF r.ok
           THEN /\ ggml_model' = r.dict
                /\ pc' = "save_ggml_model"
                /\ UNCHANGED <<trace, raised, outcome>>
           ELSE /\ except_Exception(r.err, <<>>)
                /\ UNCHANGED ggml_model
    /\ UNCHANGED <<entry, input_path, output_path, overwrite, converters, fs,
                   fs0, converter, model, opened>>

\* convert: self.save_ggml_model(ggml_model), then convert_model returns.
\* open(..., "wb") may raise; once it has truncated the file, torch.save may
\* raise after any number of items.
save_ggml_model ==
    /\ pc = "save_ggml_model"
    /\ \/ /\ except_Exception("open:OSError", <<"Writing">>)
          /\ UNCHANGED <<fs, opened>>
       \/ \E k \in 0..Len(ggml_model) :
             /\ opened' = TRUE
             /\ fs' = [fs EXCEPT ![output_path] = Partial(ggml_model, k)]
             /\ except_Exception("torch.save:Exception", <<"Writing">>)
       \/ /\ opened' = TRUE
          /\ fs' = [fs EXCEPT ![output_path] = Container(ggml_model)]
          /\ pc' = "return"
          /\ outcome' = "returned"
          /\ trace' = trace \o <<"Writing", "Done">>
          /\ UNCHANGED raised
    /\ UNCHANGED <<entry, input_path, output_path, overwrite, converters, fs0,
                   converter, model, ggml_model>>

Next ==
    \/ main
    \/ get_converter
    \/ load_model
    \/ convert_to_ggml
    \/ save_ggml_model

Spec == Init /\ [][Next]_vars

----------------------------------------------------------------------------
\* Claims.

\* the stages of one conversion, in order
StageOrder == <<"Idle", "Resolving", "Extracting", "Writing", "Done">>

\* the pipeline has run get_converter
Resolved == Len(trace) >= 2 /\ trace[2] = "Resolving"

\* the error kind of the specification that an exception of the code stands
\* for: the two ValueErrors are raised for a format that is not supported,
\* the exceptions of the loaders and of the conversion for a source that
\* cannot be read as its format, those of open and torch.save for a write
\* that failed
ErrorKind(exc) ==
    CASE exc \in {"get_converter:ValueError", "load_model:ValueError"} ->
            "UnsupportedFormat"
      [] exc \in {"torch.load:Exception", "load_model:Exception",
                  "tf.saved_model.load:OSError", "numpy:RuntimeError",
                  "items:AttributeError"} -> "LoadError"
      [] exc \in {"open:OSError", "torch.save:Exception"} -> "WriteError"
      [] OTHER -> "none"

\* C1: at every state of a conversion the destination path holds what it
\* held before the conversion, or a complete container; never a partly
\* written file.
C1_DestinationNeverPartial ==
    \/ SameFile(fs[output_path], fs0[output_path])
    \/ fs[output_path].kind = "container"

\* C2: when the destination exists and overwrite is false, the output is
\* never opened and the existing file keeps its bytes, whichever entry point
\* was called.
C2_ExistingDestinationKept ==
    (Exists(fs0, output_path) /\ ~overwrite) =>
        /\ ~opened
        /\ SameFile(fs[output_path], fs0[output_path])

\* C3: the stages entered are a prefix of Idle, Resolving, Extracting,
\* Writing, Done, or such a prefix short of Done followed by Failed; the
\* output is opened only after Resolving and Extracting were passed; the
\* code has ended exactly when the stage is Done or Failed, and then nothing
\* changes any more.
C3_StagesInOrderOnce ==
    /\ [](/\ \E n \in 1..Len(StageOrder) :
                \/ trace = SubSeq(StageOrder, 1, n)
                \/ /\ n < Len(StageOrder)
                   /\ trace = Append(SubSeq(StageOrder, 1, n), "Failed")
          /\ opened => /\ Len(trace) >= 4
                       /\ SubSeq(trace, 1, 4) = SubSeq(StageOrder, 1, 4)
          /\ (pc \in {"return", "exit"}) <=> (Stage \in {"Done", "Failed"})
          /\ (pc = "return") <=> (Stage = "Done"))
    /\ [][(Stage \in {"Done", "Failed"}) => UNCHANGED vars]_vars

\* a conversion that passed every stage and ended in Done
C3_Witness_RanToDone == pc = "return" /\ trace = StageOrder

\* C4: when a stage has raised, the outcome the caller of the entry point
\* observes is that stage's exception or its error kind.
C4_CallerSeesStageErrorKind ==
    raised # "none" => outcome \in {raised, ErrorKind(raised)}

\* C5: once get_converter has run, the converter is the one the table below
\* gives for the lowercased suffix of the input path, and for every other
\* suffix there is no converter and the conversion failed in Resolving with
\* get_converter's ValueError (UnsupportedFormat); before that no converter
\* exists; the registry mapping is never changed.
C5_ResolutionBySuffix ==
    LET suffix == Lower(splitext(input_path)[2])
        expected ==
            CASE suffix \in {PTH, PT} -> "PyTorchConverter"
              [] suffix = H5 -> "KerasConverter"
              [] suffix = PB -> "TensorFlowConverter"
              [] OTHER -> "None"
    IN  /\ converters = Registry
        /\ ~Resolved => converter = "None"
        /\ Resolved =>
              /\ converter = expected
              /\ expected = "None" =>
                    /\ raised = "get_converter:ValueError"
                    /\ ErrorKind(raised) = "UnsupportedFormat"
                    /\ trace = <<"Idle", "Resolving", "Failed">>

\* a path whose suffix has upper-case letters was resolved to PyTorchConverter
C5_Witness_UpperCaseResolved ==
    /\ Resolved
    /\ converter = "PyTorchConverter"
    /\ splitext(input_path)[2] \notin {PTH, PT}

\* C6: a path the registry accepted is never rejected as an unsupported
\* format by the converter it was routed to.
C6_AcceptedPathNotRejected ==
    converter # "None" => ErrorKind(raised) # "UnsupportedFormat"

\* every weight of every layer, in layer order then weight order
RECURSIVE WalkedWeights(_)
WalkedWeights(layers) ==
    IF layers = <<>> THEN <<>>
    ELSE Head(layers).weights \o WalkedWeights(Tail(layers))

\* C7: the records written for a layered model are the weights walked, in
\* the order walked, one record for each, equal names included.
C7_RecordsAreWeightsWalked ==
    (pc = "return" /\ fs0[input_path].kind = "layered") =>
        fs[output_path].body = WalkedWeights(fs0[input_path].body)

\* C8: for a parameter mapping, extraction never raises, the dict extracted
\* and the records written are exactly the tensor-typed entries, in the
\* mapping's order, under their names and with their data, and their number
\* is the number of tensor-typed entries.
C8_TensorEntriesExtracted ==
    LET IsTensor(e) == e.tensor
        entries == fs0[input_path].body
        kept == SelectSeq(entries, IsTensor)
        records == [i \in 1..Len(kept) |->
                      [name |-> kept[i].name, data |-> kept[i].data]]
    IN  (converter = "PyTorchConverter" /\ fs0[input_path].kind = "mapping") =>
            /\ raised \notin {"numpy:RuntimeError", "items:AttributeError"}
            /\ pc \in {"save_ggml_model", "return"} => ggml_model = records
            /\ pc = "return" =>
                  /\ fs[output_path] = Container(records)
                  /\ Len(fs[output_path].body) =
                        Cardinality({i \in 1..Len(entries) : entries[i].tensor})

\* C9: for an input with suffix .pb whose content is no SavedModel, the
\* output is never opened and the destination holds what it held before;
\* once the pipeline has ended it ended in Failed, from Extracting, and the
\* error raised or the outcome the caller observes is UnsupportedSubformat.
C9_UnrecognizedPbFailsAsSubformat ==
    (splitext(input_path)[2] = PB /\ fs0[input_path].kind \notin {"savedmodel", "none"}) =>
        /\ ~opened
        /\ pc \notin {"convert_to_ggml", "save_ggml_model", "return"}
        /\ SameFile(fs[output_path], fs0[output_path])
        /\ (Resolved /\ pc = "exit") =>
              /\ trace = <<"Idle", "Resolving", "Extracting", "Failed">>
              /\ "UnsupportedSubformat" \in {raised, ErrorKind(raised), outcome}

\* C10: the input file holds after the conversion what it held before.
C10_InputFileUnchanged ==
    SameFile(fs[input_path], fs0[input_path])

====
